---- MODULE Spec2Model ----
(***************************************************************************)
(* A model of the event-forwarding core of kubernetes-event-exporter:      *)
(*   - the routing tree (pkg/exporter/router.go) dispatching one event to  *)
(*     the SyncRegistry (pkg/exporter/engine_test.go);                     *)
(*   - the thread stores (pkg/sinks/slack_cache.go);                       *)
(*   - the thread-grouping Slack sink (pkg/sinks/slack.go).                *)
(* Each part has its own specification over the shared variables; the      *)
(* variables of the other parts stay at their initial value.               *)
(***************************************************************************)
EXTENDS Integers, Sequences, FiniteSets, TLC

VARIABLES
    \* ---- routing ----
    route,      \* the configured Route tree: node -> [Drop, Match, Routes]
    reg,        \* SyncRegistry.reg: the registered receiver names
    stack,      \* call stack of Route.ProcessEvent frames
    calls,      \* the SendEvent calls made so far, in order
    visited,    \* the Routes on which ProcessEvent was invoked, in order
    status,     \* "idle" | "running" | "returned" | "panic"
    \* ---- thread stores ----
    backend,    \* which ThreadCache is in use: "memory" | "configmap"
    cm,         \* the shared ConfigMap: [exists, rv (resourceVersion), threads (Data["threads"])]
    proc,       \* per exporter process: "down" | "create" | "up" | "failed"
    store,      \* per process: the store map of its cache (the mirror, for ConfigMapCache)
    worker,     \* per goroutine: [pc, op, n (calls made), data, rv, attempt, ret]
    committer,  \* the goroutine whose Update was accepted last ("" if none)
    mu,         \* per process: the goroutine holding c.mu of its ConfigMapCache ("" if free)
    touches,    \* Updates of the ConfigMap made by other clients of the API server
    \* ---- Slack sink ----
    cfg,        \* SlackConfig: is ThreadKey set, is CompletionCondition set
    threadTS,   \* SlackSink.threadTS: thread key -> timestamp of the thread's first message
    threadMux,  \* SlackSink.threadMux: the goroutine holding it ("" if free)
    sent,       \* the messages Slack accepted, in order
    reactions,  \* the AddReaction calls made, in order
    gor,        \* per goroutine in Send: [pc, ev, isCompletion, found, parentTS, ts, ret]
    nsends      \* calls of Send made so far

routerVars == <<route, reg, stack, calls, visited, status>>
cacheVars == <<backend, cm, proc, store, worker, committer, mu, touches>>
slackVars == <<cfg, threadTS, threadMux, sent, reactions, gor, nsends>>
vars == <<routerVars, cacheVars, slackVars>>

(***************************************************************************)
(* Bounds                                                                  *)
(***************************************************************************)
MaxRoutes == 3      \* Routes in the tree
MaxRules  == 2      \* Drop and Match rules in the whole tree
MaxOps    == 2      \* cache calls (Get, Set, Delete) over all goroutines
MaxSends  == 4      \* calls of SlackSink.Send over all goroutines
MaxTouches == 5     \* Updates of the ConfigMap by other clients of the API server
MaxCalls  == 1      \* cache calls made while other clients write the ConfigMap

Receivers == {"r1", "r2"}

(***************************************************************************)
(* Helpers                                                                 *)
(***************************************************************************)
SeqsUpTo(S, k) == UNION {[1..m -> S] : m \in 0..k}

Last(s) == s[Len(s)]

RECURSIVE SortedSeq(_)
SortedSeq(S) ==
    IF S = {} THEN <<>>
    ELSE LET m == CHOOSE x \in S : \A y \in S : x <= y
         IN  <<m>> \o SortedSeq(S \ {m})

(***************************************************************************)
(* Routing tree: configuration                                             *)
(***************************************************************************)
\* A Rule is a predicate over the event plus an optional receiver name.  One
\* event is routed, so a rule carries the value of its predicate on it.
Rule == [matches : BOOLEAN, Receiver : {""} \cup Receivers]

MatchesEvent(v) == v.matches

\* The rules of a tree, flattened: which Route, which list, which rule.
RuleEntry(n) ==
    [node : 1..n, list : {"Drop"}, rule : {v \in Rule : v.Receiver = ""}]
    \cup [node : 1..n, list : {"Match"}, rule : Rule]

EntryKey(e) == e.node + e.node + (IF e.list = "Drop" THEN 0 ELSE 1)

Grouped(fs) == \A i \in 1..(Len(fs) - 1) : EntryKey(fs[i]) <= EntryKey(fs[i + 1])

RulesOf(fs, n, l) ==
    LET sel == SelectSeq(fs, LAMBDA e : e.node = n /\ e.list = l)
    IN  [i \in 1..Len(sel) |-> sel[i].rule]

\* Route{Drop, Match, Routes}; Routes holds the child nodes in order.
BuildRoute(n, par, fs) ==
    [x \in 1..n |->
        [Drop   |-> RulesOf(fs, x, "Drop"),
         Match  |-> RulesOf(fs, x, "Match"),
         Routes |-> SortedSeq({c \in 2..n : par[c] = x})]]

Parents(n) == {p \in [2..n -> 1..n] : \A c \in 2..n : p[c] < c}

RuleLists(n) == {s \in SeqsUpTo(RuleEntry(n), MaxRules) : Grouped(s)}

Nodes == DOMAIN route

(***************************************************************************)
(* SyncRegistry                                                            *)
(***************************************************************************)
\* SendEvent(name, event): s.reg[name].Send(...).  A name that is not in the
\* map yields the nil Sink, and the method call on it panics; an error that
\* Send returns is logged and dropped.  Outcomes of one call:
SendOutcomes(name) ==
    IF name \in reg THEN {"ok", "err"} ELSE {"panic"}

\* (a registry that lets the error of Send escape to the caller)
SendEvent_Propagates(name, node, out) ==
    /\ calls' = Append(calls, [name |-> name, node |-> node, out |-> out])
    /\ status' = IF out \in {"panic", "err"} THEN "panic" ELSE status

SendEvent(name, node, out) ==
    /\ calls' = Append(calls, [name |-> name, node |-> node, out |-> out])
    /\ status' = IF out = "panic" THEN "panic" ELSE status

(***************************************************************************)
(* Route.ProcessEvent                                                      *)
(***************************************************************************)
Frame(n) == [node |-> n, pc |-> "drop", i |-> 1, matchesAll |-> TRUE]

Top == stack[Len(stack)]
SetTop(f) == [stack EXCEPT ![Len(stack)] = f]
Pop == SubSeq(stack, 1, Len(stack) - 1)

Return ==
    /\ stack' = Pop
    /\ status' = IF Len(stack) = 1 THEN "returned" ELSE status

\* (a Drop loop that never returns)
Drops_Never(rule) == FALSE

\* if v.MatchesEvent(ev) { return }
Drops(rule) == MatchesEvent(rule)

\* (the receiver is called whether or not the rule matched)
Delivers_Unmatched(rule) == rule.Receiver # ""

\* if rule.MatchesEvent(ev) { if rule.Receiver != "" { registry.SendEvent(...) } }
Delivers(rule) == MatchesEvent(rule) /\ rule.Receiver # ""

\* (matchesAll overwritten by the last rule's verdict)
MatchesAllAfter_LastOnly(matchesAll, rule) == MatchesEvent(rule)

\* matchesAll := true; ... else { matchesAll = false }
MatchesAllAfter(matchesAll, rule) == matchesAll /\ MatchesEvent(rule)

\* Router.ProcessEvent: r.cfg.Route.ProcessEvent(event, r.rcvr)
RouterProcessEvent ==
    /\ status = "idle"
    /\ status' = "running"
    /\ stack' = <<Frame(1)>>
    /\ visited' = <<1>>
    /\ UNCHANGED <<route, reg, calls>>
    /\ UNCHANGED <<cacheVars, slackVars>>

\* for _, v := range r.Drop { if v.MatchesEvent(ev) { return } }
DropLoop ==
    /\ status = "running"
    /\ Top.pc = "drop"
    /\ LET r == route[Top.node] IN
         IF Top.i > Len(r.Drop)
         THEN /\ stack' = SetTop([Top EXCEPT !.pc = "match", !.i = 1])
              /\ UNCHANGED status
         ELSE IF Drops(r.Drop[Top.i])
         THEN Return
         ELSE /\ stack' = SetTop([Top EXCEPT !.i = @ + 1])
              /\ UNCHANGED status
    /\ UNCHANGED <<route, reg, calls, visited>>
    /\ UNCHANGED <<cacheVars, slackVars>>

\* for _, rule := range r.Match { ... }: one rule per step
MatchLoop ==
    /\ status = "running"
    /\ Top.pc = "match"
    /\ LET r == route[Top.node] IN
         IF Top.i > Len(r.Match)
         THEN /\ stack' = SetTop([Top EXCEPT !.pc = "routes", !.i = 1])
              /\ UNCHANGED <<calls, status>>
         ELSE LET rule == r.Match[Top.i]
                  next == [Top EXCEPT !.i = @ + 1,
                                      !.matchesAll = MatchesAllAfter(@, rule)]
              IN  IF Delivers(rule)
                  THEN \E out \in SendOutcomes(rule.Receiver) :
                         /\ SendEvent(rule.Receiver, Top.node, out)
                         /\ stack' = IF out = "panic" THEN stack ELSE SetTop(next)
                  ELSE /\ stack' = SetTop(next)
                       /\ UNCHANGED <<calls, status>>
    /\ UNCHANGED <<route, reg, visited>>
    /\ UNCHANGED <<cacheVars, slackVars>>

\* if matchesAll { for _, subRoute := range r.Routes { subRoute.ProcessEvent(ev, registry) } }
RoutesLoop ==
    /\ status = "running"
    /\ Top.pc = "routes"
    /\ LET r == route[Top.node] IN
         IF Top.matchesAll /\ Top.i <= Len(r.Routes)
         THEN /\ stack' = Append(SetTop([Top EXCEPT !.i = @ + 1]), Frame(r.Routes[Top.i]))
              /\ visited' = Append(visited, r.Routes[Top.i])
              /\ UNCHANGED status
         ELSE /\ Return
              /\ UNCHANGED visited
    /\ UNCHANGED <<route, reg, calls>>
    /\ UNCHANGED <<cacheVars, slackVars>>

RouterInit ==
    /\ \E n \in 1..MaxRoutes : \E par \in Parents(n) : \E fs \in RuleLists(n) :
          route = BuildRoute(n, par, fs)
    /\ reg \in SUBSET Receivers
    /\ stack = <<>>
    /\ calls = <<>>
    /\ visited = <<>>
    /\ status = "idle"

\* the thread stores, not in use
CacheUnused ==
    /\ backend = "none"
    /\ cm = [exists |-> FALSE, rv |-> 0, threads |-> <<>>]
    /\ proc = <<>>
    /\ store = <<>>
    /\ worker = <<>>
    /\ committer = ""
    /\ mu = <<>>
    /\ touches = 0

\* the Slack sink, not in use
SlackUnused ==
    /\ cfg = <<>>
    /\ threadTS = <<>>
    /\ threadMux = ""
    /\ sent = <<>>
    /\ reactions = <<>>
    /\ gor = <<>>
    /\ nsends = 0

Init == RouterInit /\ CacheUnused /\ SlackUnused

Next ==
    \/ RouterProcessEvent
    \/ DropLoop
    \/ MatchLoop
    \/ RoutesLoop

Spec == Init /\ [][Next]_vars

(***************************************************************************)
(* Routing: what the configuration says about the event                    *)
(***************************************************************************)
AnyDrop(n) == \E i \in DOMAIN route[n].Drop : route[n].Drop[i].matches

AllMatch(n) == \A i \in DOMAIN route[n].Match : route[n].Match[i].matches

Children(n) == {route[n].Routes[i] : i \in DOMAIN route[n].Routes}

RECURSIVE Subtree(_)
Subtree(n) == {n} \cup UNION {Subtree(c) : c \in Children(n)}

Visited == {visited[i] : i \in DOMAIN visited}
OnStack == {stack[i].node : i \in DOMAIN stack}
Returned == Visited \ OnStack
PastMatch == Returned \cup {stack[i].node : i \in {j \in DOMAIN stack : stack[j].pc = "routes"}}

CallsBy(n, r) ==
    Cardinality({i \in DOMAIN calls : calls[i].node = n /\ calls[i].name = r})

NumMatching(n, r) ==
    Cardinality({i \in DOMAIN route[n].Match :
                    route[n].Match[i].matches /\ route[n].Match[i].Receiver = r})

RECURSIVE Concat(_, _)
Concat(f, ns) == IF ns = <<>> THEN <<>> ELSE f[Head(ns)] \o Concat(f, Tail(ns))

\* the receiver names the tree names for the event, in evaluation order
RECURSIVE Expected(_)
Expected(n) ==
    IF AnyDrop(n) THEN <<>>
    ELSE LET own == SelectSeq(route[n].Match,
                        LAMBDA v : v.matches /\ v.Receiver # "")
             sub == [c \in Children(n) |-> Expected(c)]
         IN  [i \in 1..Len(own) |-> own[i].Receiver]
             \o (IF AllMatch(n) THEN Concat(sub, route[n].Routes) ELSE <<>>)

(***************************************************************************)
(* C1: a Route one of whose Drop rules matches the event makes no          *)
(* SendEvent call, and neither does any Route below it, whatever its Match *)
(* rules and child Routes are.                                             *)
(***************************************************************************)
C1_DropSilences ==
    \A n \in Nodes : AnyDrop(n) =>
        \A i \in DOMAIN calls : calls[i].node \notin Subtree(n)

C1_Witness ==
    /\ status = "returned"
    /\ AnyDrop(1)
    /\ \E r \in reg : NumMatching(1, r) > 0
    /\ Len(route[1].Routes) > 0
    /\ calls = <<>>

(***************************************************************************)
(* C2: once a Route that no Drop rule stopped is past its Match loop, the  *)
(* SendEvent calls it made for receiver r are as many as its Match rules   *)
(* that match the event and name r.                                        *)
(***************************************************************************)
C2_OneCallPerMatchingRule ==
    \A n \in PastMatch : ~AnyDrop(n) =>
        \A r \in Receivers : CallsBy(n, r) = NumMatching(n, r)

\* a rule that does not match, followed by one that does and delivers
C2_Witness ==
    /\ status = "returned"
    /\ \E n \in Nodes : \E r \in reg :
         /\ Len(route[n].Match) = 2
         /\ ~route[n].Match[1].matches
         /\ route[n].Match[1].Receiver # ""
         /\ route[n].Match[2].matches
         /\ route[n].Match[2].Receiver = r
         /\ CallsBy(n, r) = 1

(***************************************************************************)
(* C3: ProcessEvent is invoked on a child Route only if no Drop rule of    *)
(* its parent matched and every Match rule of the parent matched; and a    *)
(* Route that has returned with no Drop match and all Match rules matching *)
(* has invoked it on every child, once each, in order.                     *)
(***************************************************************************)
ParentOf(c) == CHOOSE p \in Nodes : c \in Children(p)

C3_RecursesIffMatchesAll ==
    /\ \A k \in 2..Len(visited) :
         ~AnyDrop(ParentOf(visited[k])) /\ AllMatch(ParentOf(visited[k]))
    /\ \A n \in Returned : (~AnyDrop(n) /\ AllMatch(n)) =>
         SelectSeq(visited, LAMBDA c : c \in Children(n)) = route[n].Routes

C3_Witness ==
    /\ status = "returned"
    /\ route[1].Drop = <<>>
    /\ route[1].Match = <<>>
    /\ Len(route[1].Routes) = 2
    /\ Children(1) \subseteq Visited

(***************************************************************************)
(* C4: an error returned by a sink's Send stops nothing: when ProcessEvent *)
(* has returned, the SendEvent calls made are exactly the ones the tree    *)
(* names for the event, whichever of them failed; and routing is only ever *)
(* cut short by a call to a name that is not registered.                   *)
(***************************************************************************)
C4_SinkErrorSwallowed ==
    /\ status = "returned" => [i \in DOMAIN calls |-> calls[i].name] = Expected(1)
    /\ status = "panic" => Last(calls).name \notin reg

\* a child Route delivers after a sink of its parent failed
C4_Witness ==
    /\ status = "returned"
    /\ \E i, j \in DOMAIN calls :
         /\ i < j
         /\ calls[i].out = "err"
         /\ calls[j].node # calls[i].node
         /\ calls[j].name # calls[i].name

(***************************************************************************)
(* C5: SendEvent with a name that was never registered is logged and       *)
(* swallowed: it does not crash or abort the routing of the event.         *)
(***************************************************************************)
C5_UnregisteredSwallowed ==
    (\E i \in DOMAIN calls : calls[i].name \notin reg) => status # "panic"

(***************************************************************************)
(* Thread stores (pkg/sinks/slack_cache.go)                                *)
(***************************************************************************)
RetrySteps == 5     \* retry.DefaultRetry.Steps: attempts of one save

Keys == {"a", "b"}
KeyOrder == <<"a", "b">>

\* threadInfo{Timestamp, ChannelID}
ThreadInfo == [Timestamp : {"t1", "t2"}, ChannelID : {"ch"}]
ZeroInfo == [Timestamp |-> "", ChannelID |-> ""]

\* two exporter processes; process A runs two goroutines, B one
Procs == {"A", "B"}
Workers == {"A1", "A2", "B1"}
ProcOf(w) == IF w = "B1" THEN "B" ELSE "A"

\* map[string]threadInfo
EmptyStore == [k \in {} |-> ZeroInfo]
Stores == UNION {[ks -> ThreadInfo] : ks \in SUBSET Keys}

\* (an entry is only written when the key is new)
StoreSet_KeepsOld(m, key, info) ==
    [k \in DOMAIN m \cup {key} |-> IF k \in DOMAIN m THEN m[k] ELSE info]

\* c.store[key] = info
StoreSet(m, key, info) ==
    [k \in DOMAIN m \cup {key} |-> IF k = key THEN info ELSE m[k]]

\* delete(c.store, key)
StoreDelete(m, key) == [k \in DOMAIN m \ {key} |-> m[k]]

\* info, ok := c.store[key]; return info, ok
StoreGet(m, key) ==
    IF key \in DOMAIN m THEN [info |-> m[key], found |-> TRUE]
    ELSE [info |-> ZeroInfo, found |-> FALSE]

\* The text of Data["threads"], as JSON tokens: "{", "}", a member whose
\* value is an object with the two fields ("member"), and a member whose
\* value is not an object, such as a number ("scalar").
Tok(t, key, info) ==
    [tok |-> t, key |-> key, Timestamp |-> info.Timestamp, ChannelID |-> info.ChannelID]
Open == Tok("{", "", ZeroInfo)
Close == Tok("}", "", ZeroInfo)
Scalar(key) == Tok("scalar", key, ZeroInfo)

\* json.Marshal(c.store): one object, its members sorted by key
Marshal(m) ==
    LET ks == SelectSeq(KeyOrder, LAMBDA k : k \in DOMAIN m)
    IN  <<Open>> \o [i \in 1..Len(ks) |-> Tok("member", ks[i], m[ks[i]])] \o <<Close>>

\* the text is one JSON object (json.Unmarshal checks this before it stores)
ValidJSON(blob) ==
    /\ Len(blob) >= 2
    /\ blob[1] = Open
    /\ blob[Len(blob)] = Close
    /\ \A i \in 2..(Len(blob) - 1) : blob[i].tok \in {"member", "scalar"}

\* the members in order: each is decoded into a zero threadInfo and put in
\* the map under its key; a value of the wrong type leaves the zero value
\* and decoding goes on
RECURSIVE Decode(_, _, _)
Decode(blob, i, m) ==
    IF i >= Len(blob) THEN m
    ELSE Decode(blob, i + 1,
                StoreSet(m, blob[i].key,
                         [Timestamp |-> blob[i].Timestamp, ChannelID |-> blob[i].ChannelID]))

\* json.Unmarshal([]byte(data), &c.store): text that is not JSON is an error
\* and stores nothing; otherwise the members are stored into the map given,
\* and a member of the wrong type makes the call return an error at the end
Unmarshal(blob, into) ==
    IF ValidJSON(blob)
    THEN [err |-> \E i \in DOMAIN blob : blob[i].tok = "scalar",
          store |-> Decode(blob, 2, into)]
    ELSE [err |-> TRUE, store |-> into]

NoOp == [kind |-> "none", key |-> "", info |-> ZeroInfo]
Ret(err, info, found) == [err |-> err, info |-> info, found |-> found]
NoRet == Ret("", ZeroInfo, FALSE)
IdleWorker ==
    [pc |-> "idle", op |-> NoOp, n |-> 0, data |-> <<>>, rv |-> 0, attempt |-> 0,
     ret |-> NoRet]

RECURSIVE CallsMade(_)
CallsMade(ws) ==
    IF ws = {} THEN 0
    ELSE LET w == CHOOSE x \in ws : TRUE IN worker[w].n + CallsMade(ws \ {w})

Up(w) == proc[ProcOf(w)] = "up"
CanCall(w) == Up(w) /\ worker[w].pc = "idle" /\ CallsMade(Workers) < MaxOps

\* c.mu.Lock() / c.mu.RLock() can be taken.  Every section of the code that
\* holds c.mu is one step here, so the lock is free again after the step.
MuFree(w) == mu[ProcOf(w)] = ""

\* the call returns: the goroutine is idle again and holds the result
Returns(w, ret) ==
    worker' = [worker EXCEPT ![w] =
        [IdleWorker EXCEPT !.op = worker[w].op, !.n = worker[w].n, !.ret = ret]]

\* ---- NewConfigMapCache / load ----

\* load: Get of the ConfigMap; not found: go on to create it; found: decode
LoadGet(p) ==
    /\ backend = "configmap"
    /\ proc[p] = "down"
    /\ IF ~cm.exists
       THEN /\ proc' = [proc EXCEPT ![p] = "create"]
            /\ UNCHANGED store
       ELSE /\ proc' = [proc EXCEPT ![p] = "up"]
            /\ store' = [store EXCEPT ![p] = Unmarshal(cm.threads, @).store]
    /\ UNCHANGED <<mu, touches, backend, cm, worker, committer>>
    /\ UNCHANGED <<routerVars, slackVars>>

\* load: Create of the ConfigMap with Data{"threads": "{}"}; a ConfigMap
\* created in the meantime makes Create, load and the constructor fail
LoadCreate(p) ==
    /\ backend = "configmap"
    /\ proc[p] = "create"
    /\ IF cm.exists
       THEN /\ proc' = [proc EXCEPT ![p] = "failed"]
            /\ UNCHANGED cm
       ELSE /\ proc' = [proc EXCEPT ![p] = "up"]
            /\ cm' = [exists |-> TRUE, rv |-> 1, threads |-> Marshal(EmptyStore)]
    /\ UNCHANGED <<mu, touches, backend, store, worker, committer>>
    /\ UNCHANGED <<routerVars, slackVars>>

\* ---- Get, both caches ----
Get(w, key) ==
    /\ CanCall(w)
    /\ MuFree(w)
    /\ worker' = [worker EXCEPT ![w] =
            [@ EXCEPT !.op = [kind |-> "Get", key |-> key, info |-> ZeroInfo],
                      !.n = @ + 1,
                      !.ret = LET g == StoreGet(store[ProcOf(w)], key)
                              IN  Ret("nil", g.info, g.found)]]
    /\ UNCHANGED <<mu, touches, backend, cm, proc, store, committer>>
    /\ UNCHANGED <<routerVars, slackVars>>

\* ---- InMemoryCache ----
MemSet(w, key, info) ==
    /\ backend = "memory"
    /\ CanCall(w)
    /\ MuFree(w)
    /\ store' = [store EXCEPT ![ProcOf(w)] = StoreSet(@, key, info)]
    /\ worker' = [worker EXCEPT ![w] =
            [@ EXCEPT !.op = [kind |-> "Set", key |-> key, info |-> info],
                      !.n = @ + 1,
                      !.ret = Ret("nil", ZeroInfo, FALSE)]]
    /\ UNCHANGED <<mu, touches, backend, cm, proc, committer>>
    /\ UNCHANGED <<routerVars, slackVars>>

MemDelete(w, key) ==
    /\ backend = "memory"
    /\ CanCall(w)
    /\ MuFree(w)
    /\ store' = [store EXCEPT ![ProcOf(w)] = StoreDelete(@, key)]
    /\ worker' = [worker EXCEPT ![w] =
            [@ EXCEPT !.op = [kind |-> "Delete", key |-> key, info |-> ZeroInfo],
                      !.n = @ + 1,
                      !.ret = Ret("nil", ZeroInfo, FALSE)]]
    /\ UNCHANGED <<mu, touches, backend, cm, proc, committer>>
    /\ UNCHANGED <<routerVars, slackVars>>

\* ---- ConfigMapCache ----
StartSave(w, op) ==
    worker' = [worker EXCEPT ![w] =
        [@ EXCEPT !.pc = "marshal", !.op = op, !.n = @ + 1, !.attempt = 1, !.ret = NoRet]]

\* Set: c.mu.Lock(); c.store[key] = info; c.mu.Unlock(); return c.save()
Set(w, key, info) ==
    /\ backend = "configmap"
    /\ CanCall(w)
    /\ MuFree(w)
    /\ store' = [store EXCEPT ![ProcOf(w)] = StoreSet(@, key, info)]
    /\ StartSave(w, [kind |-> "Set", key |-> key, info |-> info])
    /\ UNCHANGED <<mu, touches, backend, cm, proc, committer>>
    /\ UNCHANGED <<routerVars, slackVars>>

\* Delete: c.mu.Lock(); delete(c.store, key); c.mu.Unlock(); return c.save()
Delete(w, key) ==
    /\ backend = "configmap"
    /\ CanCall(w)
    /\ MuFree(w)
    /\ store' = [store EXCEPT ![ProcOf(w)] = StoreDelete(@, key)]
    /\ StartSave(w, [kind |-> "Delete", key |-> key, info |-> ZeroInfo])
    /\ UNCHANGED <<mu, touches, backend, cm, proc, committer>>
    /\ UNCHANGED <<routerVars, slackVars>>

\* (the lock taken for the serialization is kept for the rest of save)
SaveMarshal_KeepsLock(w) ==
    /\ worker[w].pc = "marshal"
    /\ MuFree(w)
    /\ mu' = [mu EXCEPT ![ProcOf(w)] = w]
    /\ worker' = [worker EXCEPT ![w] =
            [@ EXCEPT !.pc = "get", !.data = Marshal(store[ProcOf(w)])]]
    /\ UNCHANGED <<touches, backend, cm, proc, store, committer>>
    /\ UNCHANGED <<routerVars, slackVars>>

\* save, one attempt: c.mu.RLock(); data, err := json.Marshal(c.store); c.mu.RUnlock()
SaveMarshal(w) ==
    /\ worker[w].pc = "marshal"
    /\ MuFree(w)
    /\ worker' = [worker EXCEPT ![w] =
            [@ EXCEPT !.pc = "get", !.data = Marshal(store[ProcOf(w)])]]
    /\ UNCHANGED <<mu, touches, backend, cm, proc, store, committer>>
    /\ UNCHANGED <<routerVars, slackVars>>

\* (a save that fails takes the mutation of its call out of the mirror)
SaveGet_RollsBack(w) ==
    /\ worker[w].pc = "get"
    /\ \E fails \in BOOLEAN :
         IF fails \/ ~cm.exists
         THEN /\ Returns(w, Ret("failed", ZeroInfo, FALSE))
              /\ store' = [store EXCEPT ![ProcOf(w)] = StoreDelete(@, worker[w].op.key)]
         ELSE /\ worker' = [worker EXCEPT ![w] = [@ EXCEPT !.pc = "update", !.rv = cm.rv]]
              /\ UNCHANGED store
    /\ UNCHANGED <<mu, touches, backend, cm, proc, committer>>
    /\ UNCHANGED <<routerVars, slackVars>>

\* cm, err := ...Get(...); if err != nil { return err }
SaveGet(w) ==
    /\ worker[w].pc = "get"
    /\ \E fails \in BOOLEAN :
         IF fails \/ ~cm.exists
         THEN Returns(w, Ret("failed", ZeroInfo, FALSE))
         ELSE worker' = [worker EXCEPT ![w] = [@ EXCEPT !.pc = "update", !.rv = cm.rv]]
    /\ UNCHANGED <<mu, touches, backend, cm, proc, store, committer>>
    /\ UNCHANGED <<routerVars, slackVars>>

\* (an Update that is accepted whatever version was fetched)
Conflicts_Never(w) == FALSE

\* the API server rejects an Update whose resourceVersion is not the current one
Conflicts(w) == worker[w].rv # cm.rv

\* (the new text is added to the text fetched)
WithThreads_Appended(old, data) == old \o data

\* cm.Data["threads"] = string(data)
WithThreads(old, data) == data

\* (a conflict is answered by a new attempt, however many there were)
SaveUpdate_KeepsRetrying(w) ==
    /\ worker[w].pc = "update"
    /\ \E fails \in BOOLEAN :
         IF fails
         THEN /\ Returns(w, Ret("failed", ZeroInfo, FALSE))
              /\ UNCHANGED <<cm, committer>>
         ELSE IF Conflicts(w)
         THEN /\ worker' = [worker EXCEPT ![w] =
                     [@ EXCEPT !.pc = "marshal", !.attempt = @ + 1]]
              /\ UNCHANGED <<cm, committer>>
         ELSE /\ cm' = [cm EXCEPT !.rv = @ + 1,
                                  !.threads = WithThreads(@, worker[w].data)]
              /\ committer' = w
              /\ Returns(w, Ret("nil", ZeroInfo, FALSE))
    /\ UNCHANGED <<mu, touches, backend, proc, store>>
    /\ UNCHANGED <<routerVars, slackVars>>

\* _, err = ...Update(..., cm, ...); return err -- and RetryOnConflict: a
\* conflict re-runs the attempt, at most RetrySteps attempts in all
SaveUpdate(w) ==
    /\ worker[w].pc = "update"
    /\ \E fails \in BOOLEAN :
         IF fails
         THEN /\ Returns(w, Ret("failed", ZeroInfo, FALSE))
              /\ UNCHANGED <<cm, committer>>
         ELSE IF Conflicts(w)
         THEN /\ IF worker[w].attempt < RetrySteps
                 THEN worker' = [worker EXCEPT ![w] =
                         [@ EXCEPT !.pc = "marshal", !.attempt = @ + 1]]
                 ELSE Returns(w, Ret("conflict", ZeroInfo, FALSE))
              /\ UNCHANGED <<cm, committer>>
         ELSE /\ cm' = [cm EXCEPT !.rv = @ + 1,
                                  !.threads = WithThreads(@, worker[w].data)]
              /\ committer' = w
              /\ Returns(w, Ret("nil", ZeroInfo, FALSE))
    /\ UNCHANGED <<mu, touches, backend, proc, store>>
    /\ UNCHANGED <<routerVars, slackVars>>

\* NewInMemoryCache cannot fail; NewConfigMapCache starts with load
CacheInit ==
    /\ backend \in {"memory", "configmap"}
    /\ cm = [exists |-> FALSE, rv |-> 0, threads |-> <<>>]
    /\ proc = [p \in Procs |-> IF backend = "memory" THEN "up" ELSE "down"]
    /\ store = [p \in Procs |-> EmptyStore]
    /\ worker = [w \in Workers |-> IdleWorker]
    /\ committer = ""
    /\ mu = [p \in Procs |-> ""]
    /\ touches = 0

\* the routing tree, not in use
RouterUnused ==
    /\ route = <<>>
    /\ reg = {}
    /\ stack = <<>>
    /\ calls = <<>>
    /\ visited = <<>>
    /\ status = "none"

CacheSpecInit == CacheInit /\ RouterUnused /\ SlackUnused

CacheNext ==
    \/ \E p \in Procs : LoadGet(p)
    \/ \E p \in Procs : LoadCreate(p)
    \/ \E w \in Workers, k \in Keys : Get(w, k)
    \/ \E w \in Workers, k \in Keys, info \in ThreadInfo : MemSet(w, k, info)
    \/ \E w \in Workers, k \in Keys : MemDelete(w, k)
    \/ \E w \in Workers, k \in Keys, info \in ThreadInfo : Set(w, k, info)
    \/ \E w \in Workers, k \in Keys : Delete(w, k)
    \/ \E w \in Workers : SaveMarshal(w)
    \/ \E w \in Workers : SaveGet(w)
    \/ \E w \in Workers : SaveUpdate(w)

CacheSpec == CacheSpecInit /\ [][CacheNext]_vars

\* ---- startup with a ConfigMap left by an earlier run ----

\* what Data["threads"] can hold at startup: mappings written by save,
\* nothing, text cut short, and JSON objects with a member that is no record
InitialThreads ==
    {Marshal(EmptyStore),
     Marshal([k \in {"a"} |-> [Timestamp |-> "t1", ChannelID |-> "ch"]]),
     Marshal([k \in Keys |-> [Timestamp |-> "t2", ChannelID |-> "ch"]])}
    \cup {<<>>, <<Open, Tok("member", "a", [Timestamp |-> "t1", ChannelID |-> "ch"])>>}
    \cup {<<Open, Scalar("a"), Close>>,
          <<Open, Scalar("a"), Tok("member", "b", [Timestamp |-> "t1", ChannelID |-> "ch"]),
            Close>>}

LoadInit ==
    /\ backend = "configmap"
    /\ \/ cm = [exists |-> FALSE, rv |-> 0, threads |-> <<>>]
       \/ \E t \in InitialThreads : cm = [exists |-> TRUE, rv |-> 1, threads |-> t]
    /\ proc = [p \in Procs |-> "down"]
    /\ store = [p \in Procs |-> EmptyStore]
    /\ worker = [w \in Workers |-> IdleWorker]
    /\ committer = ""
    /\ mu = [p \in Procs |-> ""]
    /\ touches = 0

LoadSpecInit == LoadInit /\ RouterUnused /\ SlackUnused

LoadNext ==
    \/ \E p \in Procs : LoadGet(p)
    \/ \E p \in Procs : LoadCreate(p)
    \/ \E w \in Workers, k \in Keys : Get(w, k)
    \/ \E w \in Workers, k \in Keys, info \in ThreadInfo : Set(w, k, info)
    \/ \E w \in Workers, k \in Keys : Delete(w, k)
    \/ \E w \in Workers : SaveMarshal(w)
    \/ \E w \in Workers : SaveGet(w)
    \/ \E w \in Workers : SaveUpdate(w)

LoadSpec == LoadSpecInit /\ [][LoadNext]_vars

\* "any other concurrent modification to the ConfigMap": another client of
\* the API server updates the ConfigMap, leaving Data["threads"] as it is;
\* the resourceVersion changes.  Only an update that arrives between a
\* goroutine's Get and its Update is seen by this program.
Touch ==
    /\ backend = "configmap"
    /\ cm.exists
    /\ touches < MaxTouches
    /\ \E w \in Workers : worker[w].pc = "update" /\ worker[w].rv = cm.rv
    /\ cm' = [cm EXCEPT !.rv = @ + 1]
    /\ touches' = touches + 1
    /\ UNCHANGED <<backend, proc, store, worker, committer, mu>>
    /\ UNCHANGED <<routerVars, slackVars>>

\* Process A has constructed its ConfigMapCache (load found no ConfigMap and
\* created it); process B is not started.
RetryInit ==
    /\ backend = "configmap"
    /\ cm = [exists |-> TRUE, rv |-> 1, threads |-> Marshal(EmptyStore)]
    /\ proc = [p \in Procs |-> IF p = "A" THEN "up" ELSE "down"]
    /\ store = [p \in Procs |-> EmptyStore]
    /\ worker = [w \in Workers |-> IdleWorker]
    /\ committer = ""
    /\ mu = [p \in Procs |-> ""]
    /\ touches = 0

RetrySpecInit == RetryInit /\ RouterUnused /\ SlackUnused

\* another call may be made
MayCall == CallsMade(Workers) < MaxCalls

\* the goroutines of process A, with other clients writing the ConfigMap
RetryNext ==
    \/ \E w \in Workers, k \in Keys : MayCall /\ Get(w, k)
    \/ \E w \in Workers, k \in Keys, info \in ThreadInfo : MayCall /\ Set(w, k, info)
    \/ \E w \in Workers, k \in Keys : MayCall /\ Delete(w, k)
    \/ \E w \in Workers : SaveMarshal(w)
    \/ \E w \in Workers : SaveGet(w)
    \/ \E w \in Workers : SaveUpdate(w)
    \/ Touch

\* a goroutine inside save is scheduled again, and the API server answers
SaveFairness ==
    \A w \in Workers : WF_vars(SaveMarshal(w) \/ SaveGet(w) \/ SaveUpdate(w))

RetrySpec == RetrySpecInit /\ [][RetryNext]_vars /\ SaveFairness

(***************************************************************************)
(* Thread stores: what the claims speak of                                 *)
(***************************************************************************)
\* the mapping the shared document holds
Doc == Unmarshal(cm.threads, EmptyStore).store

\* goroutine w makes a call (Get, Set or Delete) in this step
Calling(w) == worker'[w].n = worker[w].n + 1

\* goroutine w ends an attempt of save at Update in this step
Updating(w) == worker[w].pc = "update" /\ worker'[w] # worker[w]

(***************************************************************************)
(* C6: in both caches, and from any reachable state: right after Set(k, r) *)
(* has written the map, Get(k) of that process is (r, true), and after     *)
(* Delete(k) it is not found; a call changes what Get returns for no other *)
(* key and no other process, and no step of save, whether the remote write *)
(* succeeds, conflicts or fails, changes what Get returns; Get returns no  *)
(* error.                                                                  *)
(***************************************************************************)
C6_SetGetDeleteGet ==
    [][/\ \A w \in Workers : Calling(w) =>
            LET op == worker'[w].op
                p  == ProcOf(w)
            IN  /\ op.kind = "Set" =>
                     StoreGet(store'[p], op.key) = [info |-> op.info, found |-> TRUE]
                /\ op.kind = "Delete" => ~StoreGet(store'[p], op.key).found
                /\ op.kind = "Get" =>
                     /\ worker'[w].ret.err = "nil"
                     /\ worker'[w].ret.info = StoreGet(store[p], op.key).info
                     /\ worker'[w].ret.found = StoreGet(store[p], op.key).found
                /\ \A q \in Procs, k \in Keys : (q # p \/ k # op.key) =>
                     StoreGet(store'[q], k) = StoreGet(store[q], k)
       /\ (\A w \in Workers : ~Calling(w)) =>
            \A q \in Procs : proc[q] = "up" => store'[q] = store[q]
      ]_vars

\* a Set whose save failed, and Get still returns its record
C6_Witness ==
    /\ backend = "configmap"
    /\ \E w \in Workers :
         /\ worker[w].pc = "idle"
         /\ worker[w].op.kind = "Set"
         /\ worker[w].ret.err \in {"failed", "conflict"}
         /\ StoreGet(store[ProcOf(w)], worker[w].op.key)
              = [info |-> worker[w].op.info, found |-> TRUE]

(***************************************************************************)
(* C8: an Update that carries a stale version never changes the document:  *)
(* it is answered by a conflict, after which save runs a new attempt       *)
(* (serialize, fetch, write) or, its attempts used up, returns the error.  *)
(* And when processes A and B have each made one call, a Set of the same   *)
(* key, and both have returned, the document holds for that key the record *)
(* of the Set whose Update was accepted last.                              *)
(***************************************************************************)
RaceDone ==
    /\ backend = "configmap"
    /\ worker["A2"].n = 0
    /\ \A w \in {"A1", "B1"} :
         worker[w].n = 1 /\ worker[w].pc = "idle" /\ worker[w].op.kind = "Set"
    /\ worker["A1"].op.key = worker["B1"].op.key

LastWriteKept ==
    (RaceDone /\ committer # "") =>
        StoreGet(Doc, worker[committer].op.key)
            = [info |-> worker[committer].op.info, found |-> TRUE]

C8_StaleWriteRetried ==
    [][/\ \A w \in Workers : (Updating(w) /\ worker[w].rv # cm.rv) =>
            /\ cm' = cm
            /\ \/ /\ worker'[w].pc = "marshal"
                  /\ worker'[w].attempt = worker[w].attempt + 1
                  /\ worker[w].attempt < RetrySteps
               \/ /\ worker'[w].pc = "idle"
                  /\ worker'[w].ret.err = "conflict"
                  /\ worker[w].attempt = RetrySteps
               \/ /\ worker'[w].pc = "idle"
                  /\ worker'[w].ret.err = "failed"
       /\ LastWriteKept'
      ]_vars

\* both Sets were accepted, with different records; A's was accepted last
C8_Witness ==
    /\ RaceDone
    /\ worker["A1"].ret.err = "nil"
    /\ worker["B1"].ret.err = "nil"
    /\ worker["A1"].op.info # worker["B1"].op.info
    /\ committer = "A1"
    /\ StoreGet(Doc, worker["A1"].op.key).info = worker["A1"].op.info

(***************************************************************************)
(* C9: when a process whose only call so far is a Set or Delete of key b   *)
(* has its Update accepted, every record the document held for another key *)
(* (committed by the other process) is still in the document.              *)
(***************************************************************************)
C9_PeerRecordKept ==
    [][\A w \in Workers :
          (/\ Updating(w)
           /\ committer' = w
           /\ cm' # cm
           /\ CallsMade({x \in Workers : ProcOf(x) = ProcOf(w)}) = 1) =>
          \A a \in DOMAIN Doc \ {worker[w].op.key} :
              StoreGet(Doc', a) = StoreGet(Doc, a)
      ]_vars

(***************************************************************************)
(* C10: whenever the shared document exists, the text under its "threads"  *)
(* key is the serialization of one mapping from keys to thread records.    *)
(***************************************************************************)
C10_DocumentWellFormed ==
    cm.exists => \E m \in Stores : cm.threads = Marshal(m)

\* after a conflict, two accepted writes and a record in the document
C10_Witness ==
    /\ cm.exists
    /\ cm.rv >= 2
    /\ DOMAIN Doc # {}
    /\ \E w \in Workers : worker[w].attempt = 2

\* goroutine w is in the remote part of save: between the serialization of
\* an attempt and the answer to its Update, or about to retry after a conflict
InRoundTrip(w) ==
    \/ worker[w].pc \in {"get", "update"}
    \/ worker[w].pc = "marshal" /\ worker[w].attempt > 1

(***************************************************************************)
(* C17: while a goroutine is in the remote part of save (fetching, writing *)
(* back, or retrying after a conflict), c.mu of its cache is free: any     *)
(* other goroutine of the process that is ready to call can take its Get,  *)
(* Set or Delete step on any key right away.                               *)
(***************************************************************************)
C17_LockFreeInRoundTrip ==
    \A w \in Workers : InRoundTrip(w) =>
        /\ mu[ProcOf(w)] = ""
        /\ \A v \in Workers \ {w} : (ProcOf(v) = ProcOf(w) /\ CanCall(v)) =>
             \A k \in Keys :
                 /\ ENABLED Get(v, k)
                 /\ ENABLED Delete(v, k)
                 /\ \A info \in ThreadInfo : ENABLED Set(v, k, info)

\* A2's Set of another key ran from start to end after A1 had serialized
\* the mirror and before A1's Update was answered
C17_Witness ==
    /\ worker["A1"].pc \in {"get", "update"}
    /\ worker["A1"].op.kind = "Set"
    /\ worker["A2"].pc = "idle"
    /\ worker["A2"].n = 1
    /\ worker["A2"].op.kind = "Set"
    /\ worker["A2"].ret.err = "nil"
    /\ worker["A2"].op.key \in DOMAIN store["A"]
    /\ worker["A2"].op.key \notin DOMAIN Unmarshal(worker["A1"].data, EmptyStore).store

(***************************************************************************)
(* C18: save answers a version conflict by running the whole attempt again *)
(* -- the mirror as it is now is serialized, the ConfigMap fetched, the    *)
(* Update sent -- and never by sending the rejected Update again; there    *)
(* are at most RetrySteps attempts, the conflict is returned as the error  *)
(* only by the attempt that uses up the budget, and every Set and Delete   *)
(* returns, also when every attempt meets a conflict.                      *)
(***************************************************************************)
C18_BoundedRetry ==
    /\ [][\A w \in Workers :
            LET p == ProcOf(w) IN
            /\ worker'[w].attempt <= RetrySteps
            /\ (worker[w].pc = "update" /\ worker'[w].pc = "marshal") =>
                 /\ worker[w].rv # cm.rv
                 /\ worker[w].attempt < RetrySteps
                 /\ worker'[w].attempt = worker[w].attempt + 1
                 /\ cm' = cm
            /\ (worker[w].pc = "update" /\ worker'[w].pc \notin {"update", "marshal"}) =>
                 worker'[w].pc = "idle"
            /\ (worker[w].pc = "marshal" /\ worker'[w] # worker[w]) =>
                 /\ worker'[w].pc = "get"
                 /\ worker'[w].data = Marshal(store[p])
            /\ (worker[w].pc = "get" /\ worker'[w].pc # "idle" /\ worker'[w] # worker[w]) =>
                 /\ worker'[w].pc = "update"
                 /\ worker'[w].rv = cm.rv
            /\ (worker[w].pc = "update" /\ cm' # cm /\ worker'[w] # worker[w]) =>
                 cm'.threads = worker[w].data
            /\ (worker'[w].ret.err = "conflict" /\ worker[w].ret.err # "conflict") =>
                 /\ worker[w].pc = "update"
                 /\ worker[w].attempt = RetrySteps
                 /\ worker[w].rv # cm.rv
        ]_vars
    /\ \A w \in Workers : (worker[w].pc # "idle") ~> (worker[w].pc = "idle")

\* every attempt of a Set or Delete met a conflict, and the call returned it
C18_Witness ==
    \E w \in Workers :
        /\ worker[w].pc = "idle"
        /\ worker[w].op.kind \in {"Set", "Delete"}
        /\ worker[w].ret.err = "conflict"
        /\ touches >= RetrySteps - 1

(***************************************************************************)
(* C19: with process A the only writer of the document (process B is not   *)
(* started), when goroutines A1 and A2 have each made one call, a Set or a *)
(* Delete, and both calls have returned nil, the mapping in the document   *)
(* is the mirror of process A.                                             *)
(***************************************************************************)
C19_DocumentEqualsMirror ==
    (/\ backend = "configmap"
     /\ proc["B"] = "down"
     /\ \A w \in {"A1", "A2"} :
          /\ worker[w].n = 1
          /\ worker[w].pc = "idle"
          /\ worker[w].op.kind \in {"Set", "Delete"}
          /\ worker[w].ret.err = "nil") =>
        Doc = store["A"]

(***************************************************************************)
(* C20: load reads the ConfigMap once.  When it is absent, load goes on to *)
(* create it with the empty mapping and the mirror is empty.  When it is   *)
(* there, startup does not fail: if Data["threads"] is the serialization   *)
(* of a mapping the mirror is that mapping, and if it is anything else     *)
(* the mirror is empty.                                                    *)
(***************************************************************************)
C20_LoadSeedsMirror ==
    [][\A p \in Procs :
          /\ (proc[p] = "down" /\ proc'[p] # "down") =>
               IF ~cm.exists
               THEN proc'[p] = "create" /\ store'[p] = EmptyStore
               ELSE /\ proc'[p] = "up"
                    /\ IF \E m \in Stores : cm.threads = Marshal(m)
                       THEN cm.threads = Marshal(store'[p])
                       ELSE store'[p] = EmptyStore
          /\ (proc[p] = "create" /\ proc'[p] = "up") =>
               /\ cm' = [exists |-> TRUE, rv |-> 1, threads |-> Marshal(EmptyStore)]
               /\ store'[p] = EmptyStore
      ]_vars

\* goroutine w is the only one that has made calls so far: its calls ran
\* one after the other, and no other process has written the document
OnlyCaller(w) == CallsMade(Workers) = worker[w].n

\* the mirror of w's process has what w's call put there
MutationKept(w) ==
    LET g == StoreGet(store[ProcOf(w)], worker[w].op.key) IN
    /\ worker[w].op.kind = "Set" => (g.found /\ g.info = worker[w].op.info)
    /\ worker[w].op.kind = "Delete" => ~g.found

(***************************************************************************)
(* C21: with one goroutine making the calls of the only writing process:   *)
(* when save of a Set or Delete returns an error, the mirror still has the *)
(* mutation of the call, and the document is as it was (the mirror is      *)
(* ahead of it); and when a later Set or Delete has its Update accepted,   *)
(* the mapping in the document is the whole mirror again, the mutation     *)
(* that was not written before included.                                   *)
(***************************************************************************)
C21_MirrorAheadUntilNextWrite ==
    [][\A w \in Workers :
          LET p == ProcOf(w) IN
          OnlyCaller(w) =>
            /\ (worker[w].pc \in {"get", "update"} /\ worker'[w].pc = "idle"
                  /\ worker'[w].ret.err # "nil") =>
                 /\ worker'[w].ret.err \in {"failed", "conflict"}
                 /\ store' = store
                 /\ cm' = cm
                 /\ MutationKept(w)'
            /\ (worker[w].pc = "update" /\ cm' # cm) =>
                 /\ worker'[w].pc = "idle"
                 /\ worker'[w].ret.err = "nil"
                 /\ store' = store
                 /\ Doc' = store[p]
      ]_vars

\* two Sets of A1, of two keys; the document was written once, by the second
\* Set, and holds both records
C21_Witness ==
    /\ backend = "configmap"
    /\ OnlyCaller("A1")
    /\ worker["A1"].n = 2
    /\ worker["A1"].pc = "idle"
    /\ worker["A1"].op.kind = "Set"
    /\ worker["A1"].ret.err = "nil"
    /\ cm.rv = 2
    /\ DOMAIN Doc = Keys
    /\ Doc = store["A"]

(***************************************************************************)
(* C24: when both processes have been through their startup against a      *)
(* ConfigMap that was absent, and no call has been made yet: both          *)
(* constructors succeeded, the ConfigMap exists and holds the empty        *)
(* mapping, and both mirrors are empty.                                    *)
(***************************************************************************)
C24_ConcurrentStartupSucceeds ==
    (/\ backend = "configmap"
     /\ \A p \in Procs : proc[p] \notin {"down", "create"}
     /\ CallsMade(Workers) = 0) =>
        /\ \A p \in Procs : proc[p] = "up"
        /\ cm.exists
        /\ cm.threads = Marshal(EmptyStore)
        /\ \A p \in Procs : store[p] = EmptyStore

(***************************************************************************)
(* Slack sink (pkg/sinks/slack.go)                                         *)
(***************************************************************************)
ThreadKeys == {"K1", "K2"}
Goroutines == {"g1", "g2"}

\* An event, as the sink sees it through GetString: whether the channel,
\* message and field templates evaluate (body); what the ThreadKey template
\* gives (a key, the empty string, an error); what the CompletionCondition
\* template gives (non-empty, empty, an error).  Results the sink never
\* evaluates are left empty.
SlackEvents ==
    [body : {"error"}, key : {""}, completion : {""}]
    \cup [body : {"ok"}, key : {"", "error"}, completion : {""}]
    \cup [body : {"ok"}, key : ThreadKeys, completion : {"yes", "", "error"}]

NoEvent == [body |-> "", key |-> "", completion |-> ""]

IdleGoroutine ==
    [pc |-> "idle", ev |-> NoEvent, isCompletion |-> FALSE, found |-> FALSE,
     parentTS |-> 0, ts |-> 0, ret |-> ""]

\* (an empty thread key is a key like any other)
Threaded_EmptyKey(ev) == cfg.threadKey /\ ev.body = "ok" /\ ev.key # "error"

\* the threadKey template is set, evaluates, and gives a non-empty key
Threaded(ev) == cfg.threadKey /\ ev.body = "ok" /\ ev.key \in ThreadKeys

\* (anything but an empty result of the template makes a completion)
IsCompletion_Unchecked(ev) == ev.completion # ""

\* isCompletion: the condition is set, evaluates, and gives a non-empty string
IsCompletion(ev) == cfg.completionCondition /\ ev.completion = "yes"

\* the timestamp Slack gives the next message
NextTS == Len(sent) + 1

\* a message as Slack holds it: its timestamp, the thread it replies in
\* (0: none), and of its event the thread key and whether it was a completion
Message(ev, thread) ==
    [ts |-> NextTS, thread |-> thread,
     key |-> IF Threaded(ev) THEN ev.key ELSE "",
     completion |-> Threaded(ev) /\ IsCompletion(ev)]

SendReturns(g, ret) ==
    gor' = [gor EXCEPT ![g] = [IdleGoroutine EXCEPT !.ret = ret]]

\* Send returns err: the caller (SendEvent) still has the event, for its log
SendFails(g, err) ==
    gor' = [gor EXCEPT ![g] = [IdleGoroutine EXCEPT !.ret = err, !.ev = gor[g].ev]]

\* Send, up to the first call of the Slack client: the templates
SendBegin(g, ev) ==
    /\ gor[g].pc = "idle"
    /\ nsends < MaxSends
    /\ nsends' = nsends + 1
    /\ LET me == [gor[g] EXCEPT !.ev = ev, !.ret = ""] IN
         IF ev.body = "error"
         THEN gor' = [gor EXCEPT ![g] = [me EXCEPT !.ret = "template"]]
         ELSE IF ~Threaded(ev)
         THEN gor' = [gor EXCEPT ![g] = [me EXCEPT !.pc = "plain"]]
         ELSE gor' = [gor EXCEPT ![g] =
                 [me EXCEPT !.pc = "lock", !.isCompletion = IsCompletion(ev)]]
    /\ UNCHANGED <<cfg, threadTS, threadMux, sent, reactions>>
    /\ UNCHANGED <<routerVars, cacheVars>>

\* no threading, or no thread key: s.client.SendMessageContext(ctx, channel, options...)
SendPlain(g) ==
    /\ gor[g].pc = "plain"
    /\ \E ok \in BOOLEAN :
         IF ok
         THEN /\ sent' = Append(sent, Message(gor[g].ev, 0))
              /\ SendReturns(g, "nil")
         ELSE /\ SendFails(g, "transport")
              /\ UNCHANGED sent
    /\ UNCHANGED <<cfg, threadTS, threadMux, reactions, nsends>>
    /\ UNCHANGED <<routerVars, cacheVars>>

\* (no mutual exclusion)
MuxFree_Always == TRUE

MuxFree == threadMux = ""

\* s.threadMux.Lock()
Lock(g) ==
    /\ gor[g].pc = "lock"
    /\ MuxFree
    /\ threadMux' = g
    /\ gor' = [gor EXCEPT ![g] = [@ EXCEPT !.pc = "post"]]
    /\ UNCHANGED <<cfg, threadTS, sent, reactions, nsends>>
    /\ UNCHANGED <<routerVars, cacheVars>>

\* (the error of SendMessageContext is not looked at: Send goes on with the
\* empty timestamp the failed call gave)
Post_IgnoresError(g) ==
    /\ gor[g].pc = "post"
    /\ LET key == gor[g].ev.key
           found == key \in DOMAIN threadTS
           parentTS == IF found THEN threadTS[key] ELSE 0
       IN  \E ok \in BOOLEAN :
             /\ sent' = IF ok THEN Append(sent, Message(gor[g].ev, parentTS)) ELSE sent
             /\ gor' = [gor EXCEPT ![g] =
                   [@ EXCEPT !.pc = "posted", !.found = found, !.parentTS = parentTS,
                             !.ts = IF ok THEN NextTS ELSE 0]]
    /\ UNCHANGED <<cfg, threadTS, threadMux, reactions, nsends>>
    /\ UNCHANGED <<routerVars, cacheVars>>

\* parentTS, found := s.threadTS[threadKey]; if found { MsgOptionTS(parentTS) };
\* SendMessageContext; if err != nil { return err } (the deferred Unlock runs)
Post(g) ==
    /\ gor[g].pc = "post"
    /\ LET key == gor[g].ev.key
           found == key \in DOMAIN threadTS
           parentTS == IF found THEN threadTS[key] ELSE 0
       IN  \E ok \in BOOLEAN :
             IF ok
             THEN /\ sent' = Append(sent, Message(gor[g].ev, parentTS))
                  /\ gor' = [gor EXCEPT ![g] =
                        [@ EXCEPT !.pc = "posted", !.found = found,
                                  !.parentTS = parentTS, !.ts = NextTS]]
                  /\ UNCHANGED threadMux
             ELSE /\ SendFails(g, "transport")
                  /\ threadMux' = ""
                  /\ UNCHANGED sent
    /\ UNCHANGED <<cfg, threadTS, reactions, nsends>>
    /\ UNCHANGED <<routerVars, cacheVars>>

\* (every non-completion event stores its own timestamp)
AfterSend_AlwaysStores(m, key, isCompletion, found, ts) ==
    IF isCompletion
    THEN IF found THEN [k \in DOMAIN m \ {key} |-> m[k]] ELSE m
    ELSE [k \in DOMAIN m \cup {key} |-> IF k = key THEN ts ELSE m[k]]

\* (a completion event without a thread opens one)
AfterSend_CompletionOpens(m, key, isCompletion, found, ts) ==
    IF isCompletion /\ found
    THEN [k \in DOMAIN m \ {key} |-> m[k]]
    ELSE IF ~found
    THEN [k \in DOMAIN m \cup {key} |-> IF k = key THEN ts ELSE m[k]]
    ELSE m

\* (a completion event leaves the thread's timestamp in the map)
AfterSend_NeverDeletes(m, key, isCompletion, found, ts) ==
    IF ~isCompletion /\ ~found
    THEN [k \in DOMAIN m \cup {key} |-> IF k = key THEN ts ELSE m[k]]
    ELSE m

\* if isCompletion { if found { ...; delete(s.threadTS, threadKey) } }
\* else { if !found { s.threadTS[threadKey] = _ts } }
AfterSend(m, key, isCompletion, found, ts) ==
    IF isCompletion
    THEN IF found THEN [k \in DOMAIN m \ {key} |-> m[k]] ELSE m
    ELSE IF ~found
    THEN [k \in DOMAIN m \cup {key} |-> IF k = key THEN ts ELSE m[k]]
    ELSE m

\* (a reaction that fails ends Send with the error, the thread map untouched)
Finish_ReactionFatal(g) ==
    /\ gor[g].pc = "posted"
    /\ LET me == gor[g] IN
         IF me.isCompletion /\ me.found
         THEN \E ok \in BOOLEAN :
                /\ reactions' = Append(reactions, [ts |-> me.parentTS, ok |-> ok])
                /\ IF ok
                   THEN /\ threadTS' = [k \in DOMAIN threadTS \ {me.ev.key} |-> threadTS[k]]
                        /\ SendReturns(g, "nil")
                   ELSE /\ UNCHANGED threadTS
                        /\ SendReturns(g, "reaction")
         ELSE /\ UNCHANGED reactions
              /\ threadTS' = [k \in DOMAIN threadTS \cup
                                       (IF me.isCompletion \/ me.found THEN {} ELSE {me.ev.key}) |->
                                IF k \in DOMAIN threadTS THEN threadTS[k] ELSE me.ts]
              /\ SendReturns(g, "nil")
    /\ threadMux' = ""
    /\ UNCHANGED <<cfg, sent, nsends>>
    /\ UNCHANGED <<routerVars, cacheVars>>

\* after the message was sent: the reaction on the parent message, the
\* thread map, return nil (the deferred Unlock runs)
Finish(g) ==
    /\ gor[g].pc = "posted"
    /\ LET me == gor[g] IN
         /\ IF me.isCompletion /\ me.found
            THEN \E ok \in BOOLEAN :
                   reactions' = Append(reactions, [ts |-> me.parentTS, ok |-> ok])
            ELSE UNCHANGED reactions
         /\ threadTS' = AfterSend(threadTS, me.ev.key, me.isCompletion, me.found, me.ts)
    /\ threadMux' = ""
    /\ SendReturns(g, "nil")
    /\ UNCHANGED <<cfg, sent, nsends>>
    /\ UNCHANGED <<routerVars, cacheVars>>

\* NewSlackSink: threadTS: make(map[string]string)
SlackInit ==
    /\ cfg \in [threadKey : BOOLEAN, completionCondition : BOOLEAN]
    /\ threadTS = <<>>
    /\ threadMux = ""
    /\ sent = <<>>
    /\ reactions = <<>>
    /\ gor = [g \in Goroutines |-> IdleGoroutine]
    /\ nsends = 0

SlackSpecInit == SlackInit /\ RouterUnused /\ CacheUnused

SlackNext ==
    \/ \E g \in Goroutines, ev \in SlackEvents : SendBegin(g, ev)
    \/ \E g \in Goroutines : SendPlain(g)
    \/ \E g \in Goroutines : Lock(g)
    \/ \E g \in Goroutines : Post(g)
    \/ \E g \in Goroutines : Finish(g)

SlackSpec == SlackSpecInit /\ [][SlackNext]_vars

(***************************************************************************)
(* Slack sink: what the claims speak of                                    *)
(***************************************************************************)
\* the messages sent for thread key K, in order
KeyMessages(K) == SelectSeq(sent, LAMBDA m : m.key = K)

\* the AddReaction calls made on the message with timestamp ts
ReactionsOn(ts) == Cardinality({i \in DOMAIN reactions : reactions[i].ts = ts})

\* no Send is between its message and its update of the thread map
Settled == \A g \in Goroutines : gor[g].pc # "posted"

(***************************************************************************)
(* C7: of the messages sent for one thread key K, when the first (e1) and  *)
(* second (e2) are non-completion events and the third (e3) a completion:  *)
(* e1 is a top-level message and its timestamp is stored under K; e2 is a  *)
(* reply to e1 and the stored timestamp stays e1's; e3 is a reply to e1,   *)
(* one reaction is added on e1 and the record of K is deleted; a fourth    *)
(* (e4) is a top-level message again, and its timestamp is stored under K  *)
(* exactly if it is a non-completion event.                                *)
(***************************************************************************)
C7_Session ==
    \A K \in ThreadKeys :
        LET s == KeyMessages(K)
            n == Len(s)
        IN  (n >= 1 /\ ~s[1].completion) =>
              /\ s[1].thread = 0
              /\ (n = 1 /\ Settled) => (K \in DOMAIN threadTS /\ threadTS[K] = s[1].ts)
              /\ (n >= 2 /\ ~s[2].completion) =>
                   /\ s[2].thread = s[1].ts
                   /\ (n = 2 /\ Settled) =>
                        (K \in DOMAIN threadTS /\ threadTS[K] = s[1].ts)
                   /\ (n >= 3 /\ s[3].completion) =>
                        /\ s[3].thread = s[1].ts
                        /\ (n = 3 /\ Settled) =>
                             (K \notin DOMAIN threadTS /\ ReactionsOn(s[1].ts) = 1)
                        /\ n >= 4 =>
                             /\ s[4].thread = 0
                             /\ ReactionsOn(s[1].ts) = 1
                             /\ (n = 4 /\ Settled) =>
                                  IF s[4].completion THEN K \notin DOMAIN threadTS
                                  ELSE K \in DOMAIN threadTS /\ threadTS[K] = s[4].ts

\* the whole session, e4 opening a new thread
C7_Witness ==
    /\ Settled
    /\ \E K \in ThreadKeys :
         LET s == KeyMessages(K) IN
         /\ Len(s) = 4
         /\ ~s[1].completion /\ ~s[2].completion /\ s[3].completion /\ ~s[4].completion
         /\ s[2].thread = s[1].ts
         /\ s[3].thread = s[1].ts
         /\ s[4].thread = 0
         /\ threadTS[K] = s[4].ts

\* goroutine g sends its threaded message in this step
Posting(g) == gor[g].pc = "post" /\ gor'[g].pc = "posted"

\* goroutine g ends a threaded Send after its message was sent, in this step
Finishing(g) == gor[g].pc = "posted" /\ gor'[g].pc = "idle"

\* the message Slack accepts next, for thread key K
Sent(K, thread, completion) ==
    [ts |-> Len(sent) + 1, thread |-> thread, key |-> K, completion |-> completion]

(***************************************************************************)
(* C11: Send of a completion event whose thread key has no timestamp in    *)
(* the thread map sends a top-level message, adds no reaction and leaves   *)
(* the thread map as it was: no key gains or loses its timestamp.          *)
(***************************************************************************)
C11_AbsentCompletion ==
    [][\A g \in Goroutines :
          LET K == gor[g].ev.key IN
          /\ (Posting(g) /\ gor[g].isCompletion /\ K \notin DOMAIN threadTS) =>
               /\ sent' = Append(sent, Sent(K, 0, TRUE))
               /\ ~gor'[g].found
               /\ threadTS' = threadTS
               /\ reactions' = reactions
          /\ (Finishing(g) /\ gor[g].isCompletion /\ ~gor[g].found) =>
               /\ K \notin DOMAIN threadTS
               /\ threadTS' = threadTS
               /\ reactions' = reactions
               /\ sent' = sent
               /\ gor'[g].ret = "nil"
      ]_vars

\* a completion for K2 was sent top-level while K1 had its thread open
C11_Witness ==
    /\ \A g \in Goroutines : gor[g].pc = "idle"
    /\ Len(sent) = 2
    /\ sent[1] = [ts |-> 1, thread |-> 0, key |-> "K1", completion |-> FALSE]
    /\ sent[2] = [ts |-> 2, thread |-> 0, key |-> "K2", completion |-> TRUE]
    /\ DOMAIN threadTS = {"K1"}
    /\ threadTS["K1"] = 1
    /\ reactions = <<>>

(***************************************************************************)
(* C12: Send of a non-completion event whose thread key has a timestamp in *)
(* the thread map sends a reply carrying that timestamp and leaves the     *)
(* whole thread map as it was; so the timestamp kept for a key is always   *)
(* the one of the top-level message that opened its thread, and every      *)
(* later message of the key is a reply to it.                              *)
(***************************************************************************)
FirstMessageKept ==
    \A K \in DOMAIN threadTS :
        LET s == KeyMessages(K) IN
        \E i \in DOMAIN s :
            /\ s[i].ts = threadTS[K]
            /\ s[i].thread = 0
            /\ ~s[i].completion
            /\ \A j \in DOMAIN s : j > i => s[j].thread = s[i].ts

C12_OpenReply ==
    [][/\ \A g \in Goroutines :
            LET K == gor[g].ev.key IN
            /\ (Posting(g) /\ ~gor[g].isCompletion /\ K \in DOMAIN threadTS) =>
                 /\ sent' = Append(sent, Sent(K, threadTS[K], FALSE))
                 /\ gor'[g].found
                 /\ threadTS' = threadTS
            /\ (Finishing(g) /\ ~gor[g].isCompletion /\ gor[g].found) =>
                 /\ threadTS' = threadTS
                 /\ reactions' = reactions
                 /\ gor'[g].ret = "nil"
       /\ FirstMessageKept'
      ]_vars

\* two replies followed the message that opened the thread of a key
C12_Witness ==
    /\ \A g \in Goroutines : gor[g].pc = "idle"
    /\ \E K \in ThreadKeys :
         LET s == KeyMessages(K) IN
         /\ Len(s) = 3
         /\ \A i \in 1..3 : ~s[i].completion
         /\ s[1].thread = 0
         /\ s[2].thread = s[1].ts
         /\ s[3].thread = s[1].ts
         /\ K \in DOMAIN threadTS
         /\ threadTS[K] = s[1].ts

(***************************************************************************)
(* C13: when Send of a completion event, whose key has a timestamp in the  *)
(* thread map, has sent its message and AddReaction fails: the timestamp   *)
(* of the key is deleted all the same, the other keys keep theirs, and     *)
(* Send returns nil.                                                       *)
(***************************************************************************)
C13_ReactionFailureNonFatal ==
    [][\A g \in Goroutines :
          LET K == gor[g].ev.key IN
          (/\ gor[g].pc = "posted"
           /\ gor[g].isCompletion
           /\ gor[g].found
           /\ gor'[g] # gor[g]
           /\ Len(reactions') = Len(reactions) + 1
           /\ ~Last(reactions').ok) =>
             /\ K \in DOMAIN threadTS
             /\ Last(reactions').ts = threadTS[K]
             /\ threadTS' = [k \in DOMAIN threadTS \ {K} |-> threadTS[k]]
             /\ gor'[g].pc = "idle"
             /\ gor'[g].ret = "nil"
             /\ threadMux' = ""
      ]_vars

\* the last reaction failed; Send returned nil and the key has no timestamp
C13_Witness ==
    /\ \A g \in Goroutines : gor[g].pc = "idle"
    /\ Len(reactions) >= 1
    /\ ~Last(reactions).ok
    /\ Len(sent) >= 2
    /\ Last(sent).completion
    /\ Last(sent).thread = Last(reactions).ts
    /\ Last(sent).key \notin DOMAIN threadTS
    /\ \E g \in Goroutines : gor[g].ret = "nil"

\* threading is configured and the ThreadKey template fails or gives ""
Unresolved(ev) == cfg.threadKey /\ ev.body = "ok" /\ ev.key \in {"", "error"}

(***************************************************************************)
(* C14: with a ThreadKey template configured, Send of an event for which   *)
(* the template fails or gives the empty string goes on to send the        *)
(* message without a thread timestamp and without taking the mutex; the    *)
(* thread map and the reactions stay as they are; Send returns nil when    *)
(* the message was sent and the client's error when it was not.            *)
(***************************************************************************)
C14_UnresolvedKeyBypasses ==
    [][\A g \in Goroutines :
          /\ (gor[g].pc = "idle" /\ gor'[g] # gor[g] /\ Unresolved(gor'[g].ev)) =>
               /\ gor'[g].pc = "plain"
               /\ gor'[g].ret = ""
               /\ UNCHANGED <<threadTS, threadMux, sent, reactions>>
          /\ (gor[g].pc = "plain" /\ gor'[g] # gor[g] /\ Unresolved(gor[g].ev)) =>
               /\ UNCHANGED <<threadTS, threadMux, reactions>>
               /\ gor'[g].pc = "idle"
               /\ \/ /\ gor'[g].ret = "nil"
                     /\ sent' = Append(sent, Sent("", 0, FALSE))
                  \/ /\ gor'[g].ret = "transport"
                     /\ sent' = sent
      ]_vars

\* an unthreaded message was sent last, while a thread is open
C14_Witness ==
    /\ cfg.threadKey
    /\ \A g \in Goroutines : gor[g].pc = "idle"
    /\ \E g \in Goroutines : gor[g].ret = "nil"
    /\ Len(sent) >= 2
    /\ Last(sent) = [ts |-> Len(sent), thread |-> 0, key |-> "", completion |-> FALSE]
    /\ threadTS # <<>>
    /\ threadMux = ""

(***************************************************************************)
(* C15: lookup, send and store or delete of Send are one critical section  *)
(* of a sink: no two goroutines are between the Lock and the return at     *)
(* once, and of the messages of a key, a top-level non-completion message  *)
(* followed only by non-completion messages has all of them as replies     *)
(* carrying its timestamp, which is the one kept in the thread map -- so   *)
(* two concurrent events of an absent key never both open a thread.        *)
(***************************************************************************)
InSection(g) == gor[g].pc \in {"post", "posted"}

C15_OneCriticalSection ==
    /\ \A g, h \in Goroutines : (InSection(g) /\ InSection(h)) => g = h
    /\ \A g \in Goroutines : InSection(g) => threadMux = g
    /\ \A K \in ThreadKeys :
         LET s == KeyMessages(K) IN
         \A i, j \in DOMAIN s :
             (/\ i < j
              /\ s[i].thread = 0
              /\ \A x \in i..j : ~s[x].completion) =>
                /\ s[j].thread = s[i].ts
                /\ (j = Len(s) /\ Settled) =>
                     (K \in DOMAIN threadTS /\ threadTS[K] = s[i].ts)

\* two events of one key, which had no timestamp, are in Send at once: one
\* has sent the top-level message, the other waits for the mutex
C15_Witness ==
    \E g, h \in Goroutines, K \in ThreadKeys :
        /\ g # h
        /\ gor[g].pc = "lock" /\ gor[g].ev.key = K /\ ~gor[g].isCompletion
        /\ gor[h].pc = "posted" /\ gor[h].ev.key = K /\ ~gor[h].isCompletion
        /\ ~gor[h].found
        /\ threadMux = h
        /\ sent = <<[ts |-> 1, thread |-> 0, key |-> K, completion |-> FALSE]>>
        /\ threadTS = <<>>
        /\ nsends = 2

(***************************************************************************)
(* C16: the thread map of a sink has a timestamp for key K exactly when    *)
(* the last message sent for K is a non-completion message (looked at when *)
(* no Send is between its message and its update of the map).  A key gains *)
(* its timestamp only when a non-completion event that found none has been *)
(* sent, loses it only when a completion event that found one has been     *)
(* sent, and never has it changed; no message gets a second reaction, so   *)
(* the timestamp of a thread is deleted at most once.                      *)
(***************************************************************************)
RecordIffOpen ==
    \A K \in ThreadKeys :
        LET s == KeyMessages(K) IN
        (\A g \in Goroutines : ~(gor[g].pc = "posted" /\ gor[g].ev.key = K)) =>
            (K \in DOMAIN threadTS <=> (s # <<>> /\ ~Last(s).completion))

C16_Lifecycle ==
    [][/\ \A K \in ThreadKeys :
            /\ (K \in DOMAIN threadTS' /\ K \notin DOMAIN threadTS) =>
                 \E g \in Goroutines :
                     /\ Finishing(g) /\ gor[g].ev.key = K
                     /\ ~gor[g].isCompletion /\ ~gor[g].found
                     /\ threadTS'[K] = gor[g].ts
            /\ (K \notin DOMAIN threadTS' /\ K \in DOMAIN threadTS) =>
                 \E g \in Goroutines :
                     /\ Finishing(g) /\ gor[g].ev.key = K
                     /\ gor[g].isCompletion /\ gor[g].found
                     /\ reactions' = Append(reactions,
                                            [ts |-> threadTS[K], ok |-> Last(reactions').ok])
            /\ (K \in DOMAIN threadTS' /\ K \in DOMAIN threadTS) =>
                 threadTS'[K] = threadTS[K]
       /\ RecordIffOpen'
       /\ \A i \in DOMAIN sent' : ReactionsOn(sent[i].ts)' <= 1
      ]_vars

\* the thread of a key was opened, closed, and opened again
C16_Witness ==
    /\ \A g \in Goroutines : gor[g].pc = "idle"
    /\ \E K \in ThreadKeys :
         LET s == KeyMessages(K) IN
         /\ Len(s) = 3
         /\ ~s[1].completion /\ s[2].completion /\ ~s[3].completion
         /\ s[2].thread = s[1].ts
         /\ s[3].thread = 0
         /\ ReactionsOn(s[1].ts) = 1
         /\ threadTS[K] = s[3].ts

\* goroutine g is back from a Send whose threaded message Slack did not take
FailedThreaded(g) ==
    /\ gor[g].pc = "idle"
    /\ gor[g].ret = "transport"
    /\ Threaded(gor[g].ev)

(***************************************************************************)
(* C22: when SendMessageContext fails for an event with a thread key, Send *)
(* returns that error at once: the thread map is the same for every key,   *)
(* no reaction is added, nothing is sent and the mutex is free again.  So  *)
(* every timestamp in the thread map is the timestamp of a message that    *)
(* Slack accepted for that key.                                            *)
(***************************************************************************)
C22_FailedSendChangesNothing ==
    [][/\ \A g \in Goroutines :
            (gor[g].pc = "post" /\ gor'[g] # gor[g] /\ sent' = sent) =>
                /\ gor'[g].pc = "idle"
                /\ gor'[g].ret = "transport"
                /\ threadTS' = threadTS
                /\ reactions' = reactions
                /\ threadMux' = ""
       /\ \A K \in DOMAIN threadTS' :
            \E i \in DOMAIN sent' : sent'[i].ts = threadTS'[K] /\ sent'[i].key = K
      ]_vars

\* g1 opened the thread of K1; the send of g2's completion event for K1
\* failed: the timestamp is still there and there is no reaction
C22_Witness ==
    /\ gor["g1"].pc = "idle"
    /\ gor["g1"].ret = "nil"
    /\ FailedThreaded("g2")
    /\ gor["g2"].ev.key = "K1"
    /\ IsCompletion(gor["g2"].ev)
    /\ sent = <<[ts |-> 1, thread |-> 0, key |-> "K1", completion |-> FALSE]>>
    /\ DOMAIN threadTS = {"K1"}
    /\ threadTS["K1"] = 1
    /\ reactions = <<>>
    /\ threadMux = ""
    /\ nsends = 2

\* no CompletionCondition is configured, or its template fails for the
\* event, or it gives the empty string
NoCompletion(ev) == ~cfg.completionCondition \/ ev.completion \in {"error", ""}

(***************************************************************************)
(* C23: Send takes an event for a completion only when CompletionCondition *)
(* is configured and its template evaluates to a non-empty string.  With   *)
(* no condition configured, or a template that fails, Send goes on and     *)
(* treats the event as a non-completion: if the key has no timestamp, the  *)
(* message is top-level and its timestamp is stored; if it has one, the    *)
(* message is a reply and the timestamp stays; no reaction is added and    *)
(* Send returns nil.                                                       *)
(***************************************************************************)
C23_CompletionOnlyWhenEvaluated ==
    [][\A g \in Goroutines :
          LET ev == gor[g].ev
              K  == ev.key
          IN
          /\ (gor[g].pc = "idle" /\ gor'[g].pc = "lock") =>
               (gor'[g].isCompletion <=>
                  (cfg.completionCondition /\ gor'[g].ev.completion = "yes"))
          /\ (Posting(g) /\ NoCompletion(ev)) =>
               sent' = Append(sent,
                              Sent(K, IF K \in DOMAIN threadTS THEN threadTS[K] ELSE 0, FALSE))
          /\ (Finishing(g) /\ NoCompletion(ev)) =>
               /\ gor'[g].ret = "nil"
               /\ reactions' = reactions
               /\ K \in DOMAIN threadTS'
               /\ threadTS'[K] = IF gor[g].found THEN threadTS[K] ELSE gor[g].ts
               /\ \A k \in ThreadKeys \ {K} :
                    /\ k \in DOMAIN threadTS' <=> k \in DOMAIN threadTS
                    /\ k \in DOMAIN threadTS => threadTS'[k] = threadTS[k]
      ]_vars

\* the CompletionCondition template failed for an event of an open thread:
\* the message went out as a plain reply
C23_Witness ==
    \E g \in Goroutines :
        /\ cfg.completionCondition
        /\ gor[g].pc = "posted"
        /\ gor[g].ev.completion = "error"
        /\ ~gor[g].isCompletion
        /\ gor[g].found
        /\ gor[g].ev.key \in DOMAIN threadTS
        /\ Last(sent) = [ts |-> Len(sent), thread |-> threadTS[gor[g].ev.key],
                         key |-> gor[g].ev.key, completion |-> FALSE]

====
